---- MODULE Spec2Model ----
(***************************************************************************)
(* Gardenbook chat API: the POST /chat handler (main.py, chat) and the     *)
(* agent-session context manager (gardenbook_chat.py, make_graph).         *)
(*                                                                         *)
(* Python values are records [t, v]: t is the type ("none", "str", "num",  *)
(* "list"), v the value as a sequence of atoms.  A str is the sequence of  *)
(* its atoms: every whitespace character and every underscore is an atom   *)
(* of its own, any other atom is a run of other characters.                *)
(***************************************************************************)
EXTENDS Naturals, Sequences, FiniteSets

\* ------------------------------------------------------------------ bounds
NumRequests == 2
MaxTurns == 2
MaxTextLen == 2

\* ----------------------------------------------------------- Python values
None == [t |-> "none", v |-> <<>>]
Str(s) == [t |-> "str", v |-> s]
Num(s) == [t |-> "num", v |-> s]

\* bool(x) as Python evaluates `if x:` / `x and ...`
Truthy(x) ==
    CASE x.t = "none" -> FALSE
      [] x.t = "str" -> x.v # <<>>
      [] x.t = "num" -> x.v # <<"0">>
      [] OTHER -> x.v # <<>>

Whitespace == {" ", "\n", "\t"}

RECURSIVE LStrip(_)
LStrip(s) ==
    IF s # <<>> /\ Head(s) \in Whitespace THEN LStrip(Tail(s)) ELSE s

RECURSIVE RStrip(_)
RStrip(s) ==
    IF s # <<>> /\ s[Len(s)] \in Whitespace
    THEN RStrip(SubSeq(s, 1, Len(s) - 1))
    ELSE s

\* str.strip()
Strip(s) == RStrip(LStrip(s))

\* str.replace('_', ' ')
RECURSIVE ReplaceUnderscore(_)
ReplaceUnderscore(s) ==
    IF s = <<>> THEN <<>>
    ELSE <<IF Head(s) = "_" THEN " " ELSE Head(s)>> \o ReplaceUnderscore(Tail(s))

\* ------------------------------------------------- chat(): message conversion
HumanMessage(c) == [type |-> "human", content |-> c]
AIMessage(c) == [type |-> "ai", content |-> c]

\* a conversion that takes every role but "assistant" for the user's
ConvertStepElseHuman(acc, msg) ==
    IF msg.role = "assistant" THEN Append(acc, AIMessage(msg.content))
    ELSE Append(acc, HumanMessage(msg.content))

\* one pass of the for loop of chat(): msg is appended to acc or skipped
ConvertStep(acc, msg) ==
    IF msg.role = "user" THEN Append(acc, HumanMessage(msg.content))
    ELSE IF msg.role = "assistant" THEN Append(acc, AIMessage(msg.content))
    ELSE acc

RECURSIVE ConvertLoop(_, _)
ConvertLoop(acc, msgs) ==
    IF msgs = <<>> THEN acc
    ELSE ConvertLoop(ConvertStep(acc, Head(msgs)), Tail(msgs))

ConvertMessages(msgs) == ConvertLoop(<<>>, msgs)

\* --------------------------------------------- chat(): the user-data fetch
\* What the user-data service can send back: a body that is not JSON, a JSON
\* array, or a JSON object with or without the key "encyclopedia".
InvalidBody == [kind |-> "invalid", has |-> FALSE, enc |-> None]
ListBody == [kind |-> "list", has |-> FALSE, enc |-> None]
DictBody(x) == [kind |-> "dict", has |-> TRUE, enc |-> x]
EmptyDictBody == [kind |-> "dict", has |-> FALSE, enc |-> None]

NoBody == [kind |-> "none", has |-> FALSE, enc |-> None]
Idle == [st |-> "idle", status |-> 0, body |-> NoBody]
Sent == [st |-> "sent", status |-> 0, body |-> NoBody]
ConnectionError == [st |-> "error", status |-> 0, body |-> NoBody]
Response(code, b) == [st |-> "response", status |-> code, body |-> b]

\* The try block of chat() around requests.get: the value encyclopedia_data
\* holds when the block is left, and whether it was left through `except`.
FetchResult(resp) ==
    IF resp.st = "error" THEN [data |-> None, raised |-> TRUE]
    ELSE IF resp.status # 200 THEN [data |-> None, raised |-> FALSE]
    ELSE IF resp.body.kind = "invalid" THEN [data |-> None, raised |-> TRUE]
    ELSE IF resp.body.kind = "list" THEN [data |-> None, raised |-> TRUE]
    ELSE LET d == IF resp.body.has THEN resp.body.enc ELSE Str(<<>>)
         IN  IF Truthy(d) /\ d.t # "str"
             THEN [data |-> d, raised |-> TRUE]
             ELSE [data |-> d, raised |-> FALSE]

\* `if chat_request.user_timezone:` of chat()
TimezoneArg(tz) == IF Truthy(tz) THEN tz ELSE None

\* ------------------------------------------- make_graph(): the system prompt
UTC == <<"UTC">>
NewYork == <<"America/New", "_", "York">>
HoChiMinh == <<"Asia/Ho", "_", "Chi", "_", "Minh">>
LowerUtc == <<"utc">>
Nowhere == <<"NonExistent/Timezone">>
MarsBase == <<"Mars/Olympus", "_", "Mons">>

\* pytz.timezone(name): the zone it resolves to, or UnknownTimeZoneError.
\* pytz compares name.upper() with 'UTC' before it looks the name up.
pytz_timezone(name) ==
    CASE name = UTC -> [ok |-> TRUE, zone |-> "UTC"]
      [] name = LowerUtc -> [ok |-> TRUE, zone |-> "UTC"]
      [] name = NewYork -> [ok |-> TRUE, zone |-> "America/New_York"]
      [] name = HoChiMinh -> [ok |-> TRUE, zone |-> "Asia/Ho_Chi_Minh"]
      [] OTHER -> [ok |-> FALSE, zone |-> "UnknownTimeZoneError"]

\* datetime.now(zone).strftime("%B %d, %Y at %I:%M %p %Z") at one instant
Strftime(zone) ==
    CASE zone = "UTC" -> <<"April 15, 2023 at 02:30 PM UTC">>
      [] zone = "America/New_York" -> <<"April 15, 2023 at 10:30 AM EDT">>
      [] zone = "Asia/Ho_Chi_Minh" -> <<"April 15, 2023 at 09:30 PM +07">>
      [] OTHER -> <<"?">>

\* timezone = "UTC"; if user_timezone: try pytz.timezone(user_timezone) ...
ResolveTimezone(user_timezone) ==
    IF Truthy(user_timezone) /\ pytz_timezone(user_timezone.v).ok
    THEN user_timezone.v
    ELSE UTC

\* a qualifier that is not suppressed for UTC
LocationInfoAlways(timezone) == <<" in ">> \o ReplaceUnderscore(timezone)

\* location_info of the try branch
LocationInfo(timezone) ==
    IF timezone # UTC THEN <<" in ">> \o ReplaceUnderscore(timezone) ELSE <<>>

\* the try/except around datetime.now: the date string and the qualifier
DateTimeParts(timezone) ==
    IF pytz_timezone(timezone).ok
    THEN [datetime_str |-> Strftime(pytz_timezone(timezone).zone),
          location_info |-> LocationInfo(timezone)]
    ELSE [datetime_str |-> <<"April 15, 2023 at 02:30 PM UTC">>,
          location_info |-> <<>>]

\* a check that leaves out .strip()
IncludeIfTruthy(data) == Truthy(data)

\* `if encyclopedia_data and encyclopedia_data.strip():` for a str or None
IncludeEncyclopedia(data) == Truthy(data) /\ Strip(data.v) # <<>>

PromptHead == "You are Gardenbook's AI gardening assistant. [...] Current date and time"
PromptIs == " is "
PromptAlways == ".\nAlways be friendly, helpful, and focus on gardening-related topics."
EncHead == "\n\nUSER'S GARDENING ENCYCLOPEDIA:\n[...] when providing advice:\n\n"
EncTail == "\n\nAlways tailor your gardening advice to the user's specific context above."

BasePrompt(parts) ==
    <<PromptHead>> \o parts.location_info \o <<PromptIs>> \o parts.datetime_str
        \o <<PromptAlways>>

\* The prompt make_graph builds, or the AttributeError of .strip() on a
\* truthy value that is not a str.
BuildSystemPrompt(data, user_timezone) ==
    LET base == BasePrompt(DateTimeParts(ResolveTimezone(user_timezone)))
    IN  IF Truthy(data) /\ data.t # "str"
        THEN [raised |-> TRUE, prompt |-> <<>>]
        ELSE IF IncludeEncyclopedia(data)
        THEN [raised |-> FALSE, prompt |-> base \o <<EncHead>> \o data.v \o <<EncTail>>]
        ELSE [raised |-> FALSE, prompt |-> base]

\* ------------------------------------------------------------------- state
VARIABLES
    chat_request,        \* r -> the ChatRequest handed to chat()
    encyclopedia_store,  \* the user-data service: user id -> body it answers with
    llm_output,          \* the language model: the messages the agent generates
    pc,                  \* r -> where the handler of request r stands
    running,             \* the request that holds the event-loop thread, or 0
    langchain_messages,  \* r -> local of chat()
    encyclopedia_data,   \* r -> local of chat()
    user_timezone,       \* r -> local of chat()
    net,                 \* r -> the requests.get call of r and its result
    conns,               \* the MultiServerMCPClient connections ever opened
    client,              \* r -> index in conns of `client` of make_graph, or 0
    system_prompt,       \* r -> local of make_graph
    agent,               \* r -> the agent make_graph yielded
    sess,                \* r -> state of the agent session of r
    agent_input,         \* r -> the messages handed to agent.ainvoke
    invocations,         \* r -> number of agent.ainvoke calls
    response,            \* r -> response["messages"] of chat()
    assistant_response,  \* r -> local of chat()
    exc,                 \* r -> the exception raised in the handler, or "none"
    outcome              \* r -> what the client of r receives

vars ==
    <<chat_request, encyclopedia_store, llm_output, pc, running, langchain_messages,
      encyclopedia_data, user_timezone, net, conns, client, system_prompt, agent,
      sess, agent_input, invocations, response, assistant_response, exc, outcome>>

\* the inputs and the collaborators' behaviour: fixed while the requests run
env == <<chat_request, encyclopedia_store, llm_output>>

Reqs == DOMAIN chat_request

NoAgent == [conn |-> 0, system |-> <<>>]
Pending == [kind |-> "pending", response |-> "", detail |-> ""]

\* ------------------------------------------------------------------ inputs
Roles == {"user", "assistant", "system"}
Contents == {"a", "b"}
ChatMessage == [role : Roles, content : Contents]

SeqsUpTo(S, n) == UNION {[1..k -> S] : k \in 0..n}

TextAtoms == {"x", " ", "\n"}
Texts == SeqsUpTo(TextAtoms, MaxTextLen)

User1 == <<"u1">>
UserIds == {None, Str(<<>>), Str(User1)}

TzInputs == {None, Str(<<>>), Str(UTC), Str(LowerUtc), Str(NewYork), Str(HoChiMinh),
             Str(Nowhere), Str(MarsBase)}

Bodies ==
    {InvalidBody, ListBody, EmptyDictBody, DictBody(None), DictBody(Num(<<"0">>)),
     DictBody(Num(<<"7">>))} \cup {DictBody(Str(t)) : t \in Texts}

OneTurn == <<[role |-> "user", content |-> "a"]>>

\* what the agent adds to the conversation it was given
Generated == {<<>>, <<AIMessage("r1")>>, <<AIMessage("tool call"), AIMessage("r2")>>}

InitLocals ==
    /\ pc = [r \in Reqs |-> "start"]
    /\ running = 0
    /\ langchain_messages = [r \in Reqs |-> <<>>]
    /\ encyclopedia_data = [r \in Reqs |-> None]
    /\ user_timezone = [r \in Reqs |-> None]
    /\ net = [r \in Reqs |-> Idle]
    /\ conns = <<>>
    /\ client = [r \in Reqs |-> 0]
    /\ system_prompt = [r \in Reqs |-> <<>>]
    /\ agent = [r \in Reqs |-> NoAgent]
    /\ sess = [r \in Reqs |-> "uninitialized"]
    /\ agent_input = [r \in Reqs |-> <<>>]
    /\ invocations = [r \in Reqs |-> 0]
    /\ response = [r \in Reqs |-> <<>>]
    /\ assistant_response = [r \in Reqs |-> ""]
    /\ exc = [r \in Reqs |-> "none"]
    /\ outcome = [r \in Reqs |-> Pending]

\* concurrent requests of the running server; the requests are interchangeable,
\* so those that carry a userId are numbered first
Init ==
    /\ chat_request \in
         [1..NumRequests ->
            [messages : {OneTurn}, userId : {None, Str(User1)}, user_timezone : {None}]]
    /\ \A r \in 1..(NumRequests - 1) :
         Truthy(chat_request[r + 1].userId) => Truthy(chat_request[r].userId)
    /\ encyclopedia_store = [u \in {User1} |-> DictBody(Num(<<"7">>))]
    /\ llm_output = <<AIMessage("tool call"), AIMessage("r1")>>
    /\ InitLocals

\* one request, every conversation of at most MaxTurns turns
InitTurns ==
    /\ chat_request \in
         [1..1 ->
            [messages : SeqsUpTo(ChatMessage, MaxTurns), userId : {None, Str(User1)},
             user_timezone : {None}]]
    /\ encyclopedia_store = [u \in {User1} |-> DictBody(Str(<<"x">>))]
    /\ llm_output \in Generated
    /\ InitLocals

\* one request, every timezone input and every answer of the user-data service
InitContext ==
    /\ chat_request \in
         [1..1 -> [messages : {OneTurn}, userId : UserIds, user_timezone : TzInputs]]
    /\ encyclopedia_store \in [{User1} -> Bodies]
    /\ llm_output = <<AIMessage("r1")>>
    /\ InitLocals

User2 == <<"u2">>

\* two requests side by side, each with any of two users (whose encyclopedia
\* texts differ) or none, and with or without a timezone
InitIsolation ==
    /\ chat_request \in
         [1..2 ->
            [messages : {OneTurn}, userId : {None, Str(User1), Str(User2)},
             user_timezone : {None, Str(NewYork)}]]
    /\ encyclopedia_store =
         [u \in {User1, User2} |->
            IF u = User1 THEN DictBody(Str(<<"x">>)) ELSE DictBody(Str(<<"x", "\n", "x">>))]
    /\ llm_output = <<AIMessage("r1")>>
    /\ InitLocals

\* a make_graph that swallows the start failure and yields no agent
RaiseTargetSwallowStart(at) == IF at = "client_enter" THEN "body" ELSE "client_exit"

\* a handler that calls ainvoke again when it has failed
RaiseTargetRetryInvoke(at) ==
    IF at = "client_enter" THEN "inner_except"
    ELSE IF at = "ainvoke" THEN "body"
    ELSE "client_exit"

\* ----------------------------------------------------------------- actions
\* Where control goes when an exception is raised at `at`: a failure of
\* MultiServerMCPClient.__aenter__ leaves make_graph at once; anything raised
\* inside `async with ... as client` first runs the client's __aexit__.
RaiseTarget(at) == IF at = "client_enter" THEN "inner_except" ELSE "client_exit"

\* a fetch whose exceptions are not caught
AfterFetchReraise(res) ==
    IF res.raised
    THEN [pc |-> "outer_except", exc |-> "FetchError", data |-> None]
    ELSE [pc |-> "timezone", exc |-> "none", data |-> res.data]

\* `except Exception as e: print(...)` around the fetch: chat() goes on
AfterFetch(res) == [pc |-> "timezone", exc |-> "none", data |-> res.data]

\* one client kept for all requests
SharedClient(cs) == 1

\* MultiServerMCPClient(...): every call constructs a client of its own
NewClient(cs) == Len(cs) + 1

\* a client closed by a plain call after the block, skipped by an exception
ClientClosedOnSuccessOnly(conn, r, e) ==
    IF e = "none" THEN [conn EXCEPT !.open = FALSE, !.closedBy = @ \cup {r}] ELSE conn

\* __aexit__ of the client, whatever the exception e that leaves the block
ClientAfterExit(conn, r, e) ==
    [conn EXCEPT !.open = FALSE, !.closedBy = @ \cup {r}]

\* an outer handler that catches the agent's errors only
HTTPBoundaryAgentOnly(e) ==
    IF e = "AgentError"
    THEN [kind |-> "http500", response |-> "", detail |-> e]
    ELSE [kind |-> "escaped", response |-> "", detail |-> e]

\* `except Exception as e: raise HTTPException(status_code=500, detail=...)`
HTTPBoundary(e) == [kind |-> "http500", response |-> "", detail |-> e]

\* a handler that refuses a conversation with nothing to replay
AfterConvertRejectEmpty(req, msgs) ==
    IF msgs = <<>> THEN [pc |-> "outer_except", exc |-> "ValueError"]
    ELSE [pc |-> IF Truthy(req.userId) THEN "fetch" ELSE "timezone", exc |-> "none"]

\* after the message loop, whatever it kept: `if chat_request.userId:`
AfterConvert(req, msgs) ==
    [pc |-> IF Truthy(req.userId) THEN "fetch" ELSE "timezone", exc |-> "none"]

\* chat(): the message loop, encyclopedia_data = None, `if chat_request.userId:`
Begin(r) ==
    /\ pc[r] = "start" /\ running = 0
    /\ langchain_messages' =
         [langchain_messages EXCEPT ![r] = ConvertMessages(chat_request[r].messages)]
    /\ encyclopedia_data' = [encyclopedia_data EXCEPT ![r] = None]
    /\ LET after == AfterConvert(chat_request[r], ConvertMessages(chat_request[r].messages))
       IN  /\ pc' = [pc EXCEPT ![r] = after.pc]
           /\ exc' = [exc EXCEPT ![r] = after.exc]
    /\ running' = r
    /\ UNCHANGED <<env, user_timezone, net, conns, client,
                   system_prompt, agent, sess, agent_input, invocations, response,
                   assistant_response, outcome>>

\* requests.get(...) is called: a synchronous call, the thread is kept
FetchSend(r) ==
    /\ pc[r] = "fetch" /\ running = r
    /\ net' = [net EXCEPT ![r] = Sent]
    /\ pc' = [pc EXCEPT ![r] = "fetch_wait"]
    /\ UNCHANGED <<env, running, langchain_messages,
                   encyclopedia_data, user_timezone, conns, client, system_prompt, agent,
                   sess, agent_input, invocations, response, assistant_response, exc,
                   outcome>>

\* the user-data service (or the network) answers the request of r
UserDataService(r) ==
    /\ net[r] = Sent
    /\ \E resp \in {ConnectionError}
                   \cup {Response(code, encyclopedia_store[chat_request[r].userId.v]) :
                           code \in {200, 404}} :
         net' = [net EXCEPT ![r] = resp]
    /\ UNCHANGED <<env, pc, running, langchain_messages,
                   encyclopedia_data, user_timezone, conns, client, system_prompt, agent,
                   sess, agent_input, invocations, response, assistant_response, exc,
                   outcome>>

\* requests.get returns or raises; the rest of the try block and its except
FetchReturn(r) ==
    /\ pc[r] = "fetch_wait" /\ running = r
    /\ net[r].st \in {"error", "response"}
    /\ LET after == AfterFetch(FetchResult(net[r]))
       IN  /\ encyclopedia_data' = [encyclopedia_data EXCEPT ![r] = after.data]
           /\ exc' = [exc EXCEPT ![r] = after.exc]
           /\ pc' = [pc EXCEPT ![r] = after.pc]
    /\ UNCHANGED <<env, running, langchain_messages,
                   user_timezone, net, conns, client, system_prompt, agent, sess,
                   agent_input, invocations, response, assistant_response, outcome>>

\* user_timezone = None; if chat_request.user_timezone: ...
Timezone(r) ==
    /\ pc[r] = "timezone" /\ running = r
    /\ user_timezone' = [user_timezone EXCEPT ![r] = TimezoneArg(chat_request[r].user_timezone)]
    /\ pc' = [pc EXCEPT ![r] = "make_graph"]
    /\ UNCHANGED <<env, running, langchain_messages,
                   encyclopedia_data, net, conns, client, system_prompt, agent, sess,
                   agent_input, invocations, response, assistant_response, exc, outcome>>

\* async with make_graph(...): the client's __aenter__ is awaited
ClientEnter(r) ==
    /\ pc[r] = "make_graph" /\ running = r
    /\ sess' = [sess EXCEPT ![r] = "connecting"]
    /\ pc' = [pc EXCEPT ![r] = "connecting"]
    /\ running' = 0
    /\ UNCHANGED <<env, langchain_messages, encyclopedia_data,
                   user_timezone, net, conns, client, system_prompt, agent, agent_input,
                   invocations, response, assistant_response, exc, outcome>>

\* __aenter__ ends: the tool provider is connected, or starting it failed
ClientEnterDone(r) ==
    /\ pc[r] = "connecting" /\ running = 0
    /\ running' = r
    /\ \/ LET c == NewClient(conns)
          IN  /\ conns' = IF c <= Len(conns)
                          THEN [conns EXCEPT ![c].open = TRUE]
                          ELSE Append(conns, [owner |-> r, open |-> TRUE,
                                              usedBy |-> {}, closedBy |-> {}])
              /\ client' = [client EXCEPT ![r] = c]
              /\ pc' = [pc EXCEPT ![r] = "get_tools"]
              /\ UNCHANGED <<exc, sess>>
       \/ /\ exc' = [exc EXCEPT ![r] = "MCPStartError"]
          /\ sess' = [sess EXCEPT ![r] = "released"]
          /\ pc' = [pc EXCEPT ![r] = RaiseTarget("client_enter")]
          /\ UNCHANGED <<conns, client>>
    /\ UNCHANGED <<env, langchain_messages, encyclopedia_data,
                   user_timezone, net, system_prompt, agent, agent_input, invocations,
                   response, assistant_response, outcome>>

\* a make_graph that constructs the agent before the prompt is assembled
AfterGetToolsSkipPrompt == "create_agent"

\* what follows client.get_tools() in make_graph: the system prompt is built
\* inside the client's scope, before the agent is constructed
AfterGetTools == "build_prompt"

\* tools = client.get_tools()
GetTools(r) ==
    /\ pc[r] = "get_tools" /\ running = r
    /\ \/ /\ pc' = [pc EXCEPT ![r] = AfterGetTools]
          /\ UNCHANGED exc
       \/ /\ exc' = [exc EXCEPT ![r] = "GetToolsError"]
          /\ pc' = [pc EXCEPT ![r] = RaiseTarget("get_tools")]
    /\ UNCHANGED <<env, running, langchain_messages,
                   encyclopedia_data, user_timezone, net, conns, client, system_prompt,
                   agent, sess, agent_input, invocations, response, assistant_response,
                   outcome>>

\* an encyclopedia text kept in a module-level variable that every request
\* writes and reads
PromptInputsCached(r) ==
    LET fetched == {q \in Reqs : Truthy(encyclopedia_data[q])}
    IN  [encyclopedia_data |->
            IF fetched # {} THEN encyclopedia_data[CHOOSE q \in fetched : TRUE]
            ELSE encyclopedia_data[r],
         user_timezone |-> user_timezone[r]]

\* make_graph(encyclopedia_data=encyclopedia_data, user_timezone=user_timezone):
\* the arguments are the locals of this call of chat()
PromptInputs(r) ==
    [encyclopedia_data |-> encyclopedia_data[r], user_timezone |-> user_timezone[r]]

\* the timezone, the date and the system prompt
BuildPrompt(r) ==
    /\ pc[r] = "build_prompt" /\ running = r
    /\ LET b == BuildSystemPrompt(PromptInputs(r).encyclopedia_data,
                                  PromptInputs(r).user_timezone)
       IN  IF b.raised
           THEN /\ exc' = [exc EXCEPT ![r] = "AttributeError"]
                /\ pc' = [pc EXCEPT ![r] = RaiseTarget("build_prompt")]
                /\ UNCHANGED system_prompt
           ELSE /\ system_prompt' = [system_prompt EXCEPT ![r] = b.prompt]
                /\ pc' = [pc EXCEPT ![r] = "create_agent"]
                /\ UNCHANGED exc
    /\ UNCHANGED <<env, running, langchain_messages,
                   encyclopedia_data, user_timezone, net, conns, client, agent, sess,
                   agent_input, invocations, response, assistant_response, outcome>>

\* llm = ChatAnthropic(...); agent = create_react_agent(llm, tools); yield agent
CreateAgent(r) ==
    /\ pc[r] = "create_agent" /\ running = r
    /\ \/ /\ agent' = [agent EXCEPT ![r] = [conn |-> client[r], system |-> system_prompt[r]]]
          /\ sess' = [sess EXCEPT ![r] = "ready"]
          /\ pc' = [pc EXCEPT ![r] = "body"]
          /\ UNCHANGED exc
       \/ /\ exc' = [exc EXCEPT ![r] = "LLMConfigError"]
          /\ pc' = [pc EXCEPT ![r] = RaiseTarget("create_agent")]
          /\ UNCHANGED <<agent, sess>>
    /\ UNCHANGED <<env, running, langchain_messages,
                   encyclopedia_data, user_timezone, net, conns, client, system_prompt,
                   agent_input, invocations, response, assistant_response, outcome>>

\* response = await agent.ainvoke({"messages": langchain_messages}) is called
Invoke(r) ==
    /\ pc[r] = "body" /\ running = r
    /\ agent_input' = [agent_input EXCEPT ![r] = langchain_messages[r]]
    /\ invocations' = [invocations EXCEPT ![r] = @ + 1]
    /\ conns' = IF agent[r].conn \in 1..Len(conns)
                THEN [conns EXCEPT ![agent[r].conn].usedBy = @ \cup {r}]
                ELSE conns
    /\ sess' = [sess EXCEPT ![r] = "invoking"]
    /\ pc' = [pc EXCEPT ![r] = "invoking"]
    /\ running' = 0
    /\ UNCHANGED <<env, langchain_messages, encyclopedia_data,
                   user_timezone, net, client, system_prompt, agent, response,
                   assistant_response, exc, outcome>>

\* ainvoke returns the conversation with the agent's messages, or raises
InvokeDone(r) ==
    /\ pc[r] = "invoking" /\ running = 0
    /\ running' = r
    /\ \/ /\ response' = [response EXCEPT ![r] = agent_input[r] \o llm_output]
          /\ sess' = [sess EXCEPT ![r] = "ready"]
          /\ pc' = [pc EXCEPT ![r] = "extract"]
          /\ UNCHANGED exc
       \/ /\ exc' = [exc EXCEPT ![r] = "AgentError"]
          /\ pc' = [pc EXCEPT ![r] = RaiseTarget("ainvoke")]
          /\ UNCHANGED <<response, sess>>
    /\ UNCHANGED <<env, langchain_messages, encyclopedia_data,
                   user_timezone, net, conns, client, system_prompt, agent, agent_input,
                   invocations, assistant_response, outcome>>

\* a handler that answers with the first message of the list
FirstContent(msgs) == msgs[1].content

\* `response["messages"][-1].content` of a list that has a last element
LastContent(msgs) == msgs[Len(msgs)].content

\* assistant_response = response["messages"][-1].content
Extract(r) ==
    /\ pc[r] = "extract" /\ running = r
    /\ IF response[r] = <<>>
       THEN /\ exc' = [exc EXCEPT ![r] = "IndexError"]
            /\ pc' = [pc EXCEPT ![r] = RaiseTarget("extract")]
            /\ UNCHANGED assistant_response
       ELSE /\ assistant_response' =
                 [assistant_response EXCEPT ![r] = LastContent(response[r])]
            /\ pc' = [pc EXCEPT ![r] = "client_exit"]
            /\ UNCHANGED exc
    /\ UNCHANGED <<env, running, langchain_messages,
                   encyclopedia_data, user_timezone, net, conns, client, system_prompt,
                   agent, sess, agent_input, invocations, response, outcome>>

\* the `async with` blocks are left: the client's __aexit__ is awaited
ClientExit(r) ==
    /\ pc[r] = "client_exit" /\ running = r
    /\ pc' = [pc EXCEPT ![r] = "closing"]
    /\ running' = 0
    /\ UNCHANGED <<env, langchain_messages, encyclopedia_data,
                   user_timezone, net, conns, client, system_prompt, agent, sess,
                   agent_input, invocations, response, assistant_response, exc, outcome>>

\* __aexit__ ends: the exception in flight, if any, goes on to chat()
ClientExitDone(r) ==
    /\ pc[r] = "closing" /\ running = 0
    /\ running' = r
    /\ conns' = [conns EXCEPT ![client[r]] = ClientAfterExit(@, r, exc[r])]
    /\ sess' = [sess EXCEPT ![r] = "released"]
    /\ pc' = [pc EXCEPT ![r] = IF exc[r] = "none" THEN "return" ELSE "inner_except"]
    /\ UNCHANGED <<env, langchain_messages, encyclopedia_data,
                   user_timezone, net, client, system_prompt, agent, agent_input,
                   invocations, response, assistant_response, exc, outcome>>

\* return ChatResponse(response=assistant_response)
Return(r) ==
    /\ pc[r] = "return" /\ running = r
    /\ outcome' = [outcome EXCEPT ![r] =
                     [kind |-> "ok", response |-> assistant_response[r], detail |-> ""]]
    /\ pc' = [pc EXCEPT ![r] = "done"]
    /\ running' = 0
    /\ UNCHANGED <<env, langchain_messages, encyclopedia_data,
                   user_timezone, net, conns, client, system_prompt, agent, sess,
                   agent_input, invocations, response, assistant_response, exc>>

\* except Exception as e: print(...); raise e
InnerExcept(r) ==
    /\ pc[r] = "inner_except" /\ running = r
    /\ pc' = [pc EXCEPT ![r] = "outer_except"]
    /\ UNCHANGED <<env, running, langchain_messages,
                   encyclopedia_data, user_timezone, net, conns, client, system_prompt,
                   agent, sess, agent_input, invocations, response, assistant_response,
                   exc, outcome>>

\* except Exception as e: raise HTTPException(status_code=500, ...)
OuterExcept(r) ==
    /\ pc[r] = "outer_except" /\ running = r
    /\ outcome' = [outcome EXCEPT ![r] = HTTPBoundary(exc[r])]
    /\ pc' = [pc EXCEPT ![r] = "done"]
    /\ running' = 0
    /\ UNCHANGED <<env, langchain_messages, encyclopedia_data,
                   user_timezone, net, conns, client, system_prompt, agent, sess,
                   agent_input, invocations, response, assistant_response, exc>>

\* the steps of the handler itself
Handler(r) ==
    \/ Begin(r) \/ FetchSend(r) \/ FetchReturn(r) \/ Timezone(r) \/ ClientEnter(r)
    \/ GetTools(r) \/ BuildPrompt(r) \/ CreateAgent(r) \/ Invoke(r) \/ Extract(r)
    \/ ClientExit(r) \/ Return(r) \/ InnerExcept(r) \/ OuterExcept(r)

\* the tool provider and the language model answering
Collaborators(r) == ClientEnterDone(r) \/ InvokeDone(r) \/ ClientExitDone(r)

Next == \E r \in Reqs : Handler(r) \/ Collaborators(r) \/ UserDataService(r)

Spec == Init /\ [][Next]_vars
SpecTurns == InitTurns /\ [][Next]_vars
SpecContext == InitContext /\ [][Next]_vars
SpecIsolation == InitIsolation /\ [][Next]_vars

\* The handler is scheduled whenever it can run, and the tool provider and the
\* language model answer; nothing makes the user-data service answer.
Fairness == \A r \in 1..NumRequests : WF_vars(Handler(r)) /\ WF_vars(Collaborators(r))
SpecFair == Init /\ [][Next]_vars /\ Fairness

\* ------------------------------------------------------------------ claims
OwnConns(r) == {c \in 1..Len(conns) : conns[c].owner = r}

\* C1: a request that has returned (normally or with an error, whatever step
\* failed) has none of the Tool Client connections it opened still open.
C1_ConnectionClosedOnReturn ==
    \A r \in Reqs : pc[r] = "done" => \A c \in OwnConns(r) : ~conns[c].open

\* two finished requests that had opened a connection: one replied, one failed in ainvoke
C1_Witness ==
    \E r1, r2 \in Reqs :
        /\ pc[r1] = "done" /\ pc[r2] = "done"
        /\ OwnConns(r1) # {} /\ OwnConns(r2) # {}
        /\ exc[r1] = "none" /\ exc[r2] = "AgentError"

\* C2: when starting the Tool Client or capability discovery fails, no agent
\* is yielded, the body of the scope never runs, ainvoke is never called and
\* the request ends with HTTP 500.
C2_StartupFailureSkipsAgent ==
    \A r \in Reqs :
        exc[r] \in {"MCPStartError", "GetToolsError"} =>
            /\ agent[r] = NoAgent
            /\ invocations[r] = 0
            /\ pc[r] \notin {"body", "invoking", "extract", "return"}
            /\ pc[r] = "done" => outcome[r].kind = "http500"

C2_Witness ==
    \E r \in Reqs :
        /\ exc[r] = "MCPStartError" /\ pc[r] = "done"
        /\ outcome[r].kind = "http500" /\ invocations[r] = 0

FetchFailed(r) ==
    /\ pc[r] \notin {"start", "fetch", "fetch_wait"}
    /\ \/ net[r].st = "error"
       \/ net[r].st = "response" /\ net[r].status # 200

\* C3: after a user-data fetch that answered non-200 or failed in the network,
\* the handler goes on to session acquisition with encyclopedia_data None, and
\* the request fails only by session acquisition or agent invocation.
C3_FetchFailureNotFatal ==
    \A r \in Reqs :
        FetchFailed(r) =>
            /\ encyclopedia_data[r] = None
            /\ exc[r] \in {"none", "MCPStartError", "GetToolsError", "LLMConfigError",
                           "AgentError", "IndexError"}
            /\ pc[r] \in {"timezone", "make_graph", "connecting"} => exc[r] = "none"
            /\ (pc[r] = "done" /\ exc[r] = "none") => outcome[r].kind = "ok"

\* a 404 that carried an encyclopedia text, and the request replied all the same
C3_Witness ==
    \E r \in Reqs :
        /\ FetchFailed(r) /\ net[r].st = "response"
        /\ net[r].body.enc = Str(<<"x">>)
        /\ pc[r] = "done" /\ outcome[r].kind = "ok"

\* C4: a request waiting for the user-data service eventually leaves the
\* fetch step, even when the service never answers.
C4_FetchIsBounded == (pc[1] = "fetch_wait") ~> (pc[1] \notin {"fetch", "fetch_wait"})

SessionArrows ==
    {<<"uninitialized", "connecting">>, <<"connecting", "ready">>,
     <<"connecting", "released">>, <<"ready", "invoking">>, <<"invoking", "ready">>,
     <<"invoking", "released">>, <<"ready", "released">>}

\* C5: the session of a request moves only along uninitialized -> connecting
\* -> ready -> invoking -> ready/released (ready -> released only after the
\* invocation) or connecting -> released; ainvoke is called only in ready,
\* with the connection open and the agent built; and after released the
\* session stays released: no connect, no capability discovery, no invoke.
C5_SessionLifecycle ==
    [][\A r \in Reqs :
         /\ sess'[r] # sess[r] =>
              /\ <<sess[r], sess'[r]>> \in SessionArrows
              /\ (sess[r] = "ready" /\ sess'[r] = "released") => invocations[r] = 1
         /\ invocations'[r] # invocations[r] =>
              /\ sess[r] = "ready"
              /\ agent[r] # NoAgent
              /\ client[r] # 0 /\ conns[client[r]].open
         /\ sess[r] = "released" =>
              /\ sess'[r] = "released"
              /\ invocations'[r] = invocations[r]
              /\ client'[r] = client[r]
              /\ pc'[r] \notin {"connecting", "get_tools", "body", "invoking"}]_vars

\* one session released after its invocation, one released from connecting
C5_Witness ==
    \E r1, r2 \in Reqs :
        /\ sess[r1] = "released" /\ invocations[r1] = 1 /\ pc[r1] = "done"
        /\ sess[r2] = "released" /\ exc[r2] = "GetToolsError" /\ pc[r2] = "done"

\* C6: every request has a connection and an agent of its own: a connection
\* is invoked through and closed only by the request that opened it, no two
\* requests hold the same one, and none is open once its request has ended.
C6_ConnectionsNotShared ==
    /\ \A c \in 1..Len(conns) :
         /\ conns[c].usedBy \subseteq {conns[c].owner}
         /\ conns[c].closedBy \subseteq {conns[c].owner}
         /\ pc[conns[c].owner] = "done" => ~conns[c].open
    /\ \A r \in Reqs :
         /\ client[r] # 0 => client[r] \in OwnConns(r)
         /\ agent[r] # NoAgent => agent[r].conn = client[r] /\ client[r] # 0
         /\ Cardinality(OwnConns(r)) <= 1
    /\ \A r1, r2 \in Reqs : (r1 # r2 /\ client[r1] # 0) => client[r1] # client[r2]

\* two requests invoking at the same time, each through its open connection
C6_Witness ==
    \E r1, r2 \in Reqs :
        /\ r1 # r2 /\ pc[r1] = "invoking" /\ pc[r2] = "invoking"
        /\ conns[client[r1]].open /\ conns[client[r2]].open
        /\ conns[client[r1]].usedBy = {r1} /\ conns[client[r2]].usedBy = {r2}

\* C7: a finished request has exactly one of two outcomes, the reply or HTTP
\* 500 with a detail: every exception raised in the handler ends as HTTP 500,
\* none escapes in another form, and a failed request carries no reply.
C7_ReplyOrHttp500 ==
    \A r \in Reqs :
        /\ pc[r] # "done" => outcome[r] = Pending
        /\ pc[r] = "done" =>
             /\ outcome[r].kind \in {"ok", "http500"}
             /\ exc[r] # "none" <=> outcome[r].kind = "http500"
             /\ outcome[r].kind = "http500" =>
                  outcome[r].response = "" /\ outcome[r].detail = exc[r]
             /\ outcome[r].kind = "ok" =>
                  outcome[r].detail = "" /\ outcome[r].response = assistant_response[r]

\* one request answered, another failed while the prompt was built
C7_Witness ==
    \E r1, r2 \in Reqs :
        /\ pc[r1] = "done" /\ outcome[r1].kind = "ok"
        /\ pc[r2] = "done" /\ outcome[r2].kind = "http500"
        /\ exc[r2] = "AttributeError"

\* the turns that are replayed, and the place of turn i among them
Kept(msgs) == {i \in 1..Len(msgs) : msgs[i].role \in {"user", "assistant"}}
Rank(msgs, i) == Cardinality({j \in Kept(msgs) : j <= i})

IsFilteredTurns(out, msgs) ==
    /\ Len(out) = Cardinality(Kept(msgs))
    /\ \A i \in Kept(msgs) :
         /\ out[Rank(msgs, i)].content = msgs[i].content
         /\ out[Rank(msgs, i)].type = IF msgs[i].role = "user" THEN "human" ELSE "ai"

\* C8: the messages handed to the agent are the turns of role user or
\* assistant, in their order, contents unchanged, user as human message and
\* assistant as AI message; other turns are dropped and raise nothing.
C8_ReplayedTurnsFiltered ==
    \A r \in Reqs :
        /\ pc[r] # "start" => IsFilteredTurns(langchain_messages[r], chat_request[r].messages)
        /\ pc[r] \in {"fetch", "timezone"} => exc[r] = "none"
        /\ invocations[r] > 0 => IsFilteredTurns(agent_input[r], chat_request[r].messages)

\* a system turn dropped from the start of a two-turn conversation
C8_Witness ==
    \E r \in Reqs :
        /\ invocations[r] = 1
        /\ chat_request[r].messages =
             <<[role |-> "system", content |-> "a"], [role |-> "assistant", content |-> "b"]>>
        /\ agent_input[r] = <<AIMessage("b")>>

\* the part of the date sentence between "Current date and time" and " is "
IsAt(p) == CHOOSE i \in 1..Len(p) : p[i] = PromptIs /\ \A j \in 1..(i - 1) : p[j] # PromptIs
QualifierOf(p) == SubSeq(p, 2, IsAt(p) - 1)
DateOf(p) == p[IsAt(p) + 1]

\* " in " followed by tz with every underscore turned into a space
ExpectedQualifier(tz) ==
    [i \in 1..(Len(tz) + 1) |->
        IF i = 1 THEN " in " ELSE IF tz[i - 1] = "_" THEN " " ELSE tz[i - 1]]

Qualifies(tz) == tz.t = "str" /\ tz.v # <<>> /\ pytz_timezone(tz.v).ok /\ tz.v # UTC

\* C9: whatever user_timezone is, building the prompt fails only on the
\* encyclopedia value, and the date sentence has the qualifier " in " + tz
\* (underscores as spaces) exactly when tz is present, recognized and not
\* "UTC"; otherwise it has no qualifier and the UTC time.
C9_TimezoneQualifier ==
    \A r \in Reqs :
        /\ exc[r] = "AttributeError" =>
             Truthy(encyclopedia_data[r]) /\ encyclopedia_data[r].t # "str"
        /\ system_prompt[r] # <<>> =>
             LET tz == chat_request[r].user_timezone
                 p == system_prompt[r]
             IN  /\ p[1] = PromptHead
                 /\ Qualifies(tz) => QualifierOf(p) = ExpectedQualifier(tz.v)
                 /\ ~Qualifies(tz) =>
                      /\ QualifierOf(p) = <<>>
                      /\ DateOf(p) = "April 15, 2023 at 02:30 PM UTC"

C9_Witness ==
    \E r \in Reqs :
        /\ chat_request[r].user_timezone = Str(HoChiMinh)
        /\ system_prompt[r] # <<>>
        /\ QualifierOf(system_prompt[r]) = <<" in ", "Asia/Ho", " ", "Chi", " ", "Minh">>

Places(p, a) == {i \in 1..Len(p) : p[i] = a}
HasSection(p) == Places(p, EncHead) # {}
SectionText(p) == SubSeq(p, (CHOOSE i \in Places(p, EncHead) : TRUE) + 1, Len(p) - 1)
NonBlank(d) == d.t = "str" /\ \E i \in 1..Len(d.v) : d.v[i] \notin Whitespace

\* C10: the prompt has the encyclopedia section exactly when the knowledge
\* text is present and not blank, and then holds that text verbatim between
\* the section's head and tail; a 200 answer's text is the knowledge text.
C10_KnowledgeSection ==
    \A r \in Reqs :
        /\ ( /\ pc[r] \notin {"start", "fetch", "fetch_wait"}
             /\ net[r].st = "response" /\ net[r].status = 200
             /\ net[r].body.kind = "dict" /\ net[r].body.has /\ net[r].body.enc.t = "str" )
           => encyclopedia_data[r] = net[r].body.enc
        /\ system_prompt[r] # <<>> =>
             LET d == encyclopedia_data[r]
                 p == system_prompt[r]
             IN  /\ HasSection(p) <=> NonBlank(d)
                 /\ HasSection(p) =>
                      /\ Cardinality(Places(p, EncHead)) = 1
                      /\ p[Len(p)] = EncTail
                      /\ SectionText(p) = d.v
                 /\ ~HasSection(p) => p[Len(p)] = PromptAlways

\* a text with leading whitespace, given as it came
C10_Witness ==
    \E r \in Reqs :
        /\ encyclopedia_data[r] = Str(<<"\n", "x">>)
        /\ HasSection(system_prompt[r])
        /\ SectionText(system_prompt[r]) = <<"\n", "x">>

\* what the user-data service sent for the user of request r itself
OwnKnowledge(r) ==
    IF /\ pc[r] \notin {"start", "fetch", "fetch_wait"}
       /\ net[r].st = "response" /\ net[r].status = 200
    THEN encyclopedia_store[chat_request[r].userId.v].enc
    ELSE None

\* C11: the prompt of a request, and the one its agent is given, is fixed by
\* the request's own user_timezone and by what the user-data service sent
\* for its own userId, whatever the other request carries or has fetched:
\* the qualifier is that of its own timezone, the encyclopedia section is
\* there exactly when its own text is, and holds that text.
C11_PromptFromOwnInputs ==
    \A r \in Reqs :
        /\ agent[r] # NoAgent => agent[r].system = system_prompt[r]
        /\ system_prompt[r] # <<>> =>
             LET tz == chat_request[r].user_timezone
                 p == system_prompt[r]
             IN  /\ QualifierOf(p) = IF Qualifies(tz) THEN ExpectedQualifier(tz.v) ELSE <<>>
                 /\ HasSection(p) <=> NonBlank(OwnKnowledge(r))
                 /\ HasSection(p) => SectionText(p) = OwnKnowledge(r).v
                 /\ Len(p) = Len(QualifierOf(p)) + 4
                             + IF HasSection(p) THEN Len(OwnKnowledge(r).v) + 2 ELSE 0

\* two agents built side by side: one with the first user's text and no
\* timezone, one without a userId and with a timezone
C11_Witness ==
    \E r1, r2 \in Reqs :
        /\ r1 # r2 /\ agent[r1] # NoAgent /\ agent[r2] # NoAgent
        /\ pc[r1] = "invoking" /\ pc[r2] = "invoking"
        /\ HasSection(agent[r1].system) /\ SectionText(agent[r1].system) = <<"x">>
        /\ QualifierOf(agent[r1].system) = <<>>
        /\ ~HasSection(agent[r2].system)
        /\ QualifierOf(agent[r2].system) = <<" in ", "America/New", " ", "York">>

NothingToReplay(r) == Kept(chat_request[r].messages) = {}

\* C12: a request with no turns, or with turns of unrecognized roles only, is
\* not refused: nothing is raised before the session is acquired, the only
\* failures are those of any request (session, agent, reply), the agent is
\* invoked whenever the session was acquired, and with an empty sequence.
C12_EmptyTurnsNotRejected ==
    \A r \in Reqs :
        NothingToReplay(r) =>
            /\ pc[r] \in {"fetch", "fetch_wait", "timezone", "make_graph", "connecting"}
                  => exc[r] = "none"
            /\ exc[r] \in {"none", "MCPStartError", "GetToolsError", "LLMConfigError",
                           "AgentError", "IndexError"}
            /\ invocations[r] > 0 => agent_input[r] = <<>>
            /\ (pc[r] = "done" /\ agent[r] # NoAgent) => invocations[r] = 1
            /\ (pc[r] = "done" /\ exc[r] = "none") => outcome[r].kind = "ok"

\* a conversation of two system turns, answered by the agent
C12_Witness ==
    \E r \in Reqs :
        /\ Len(chat_request[r].messages) = 2 /\ NothingToReplay(r)
        /\ invocations[r] = 1 /\ agent_input[r] = <<>>
        /\ pc[r] = "done" /\ outcome[r].kind = "ok"

ConnOpen(r) == client[r] # 0 /\ conns[client[r]].open

C14_InvokedAtMostOnce ==
    \A r \in Reqs :
        /\ invocations[r] <= 1
        /\ agent[r] = NoAgent => invocations[r] = 0
        /\ (agent[r] # NoAgent /\ pc[r] # "body") => invocations[r] = 1
        /\ exc[r] = "AgentError" => invocations[r] = 1 /\ pc[r] \notin {"body", "invoking"}
        /\ exc[r] \in {"MCPStartError", "GetToolsError", "AttributeError", "LLMConfigError"}
              => invocations[r] = 0

\* one request whose only invocation raised, one that never had an agent
C14_Witness ==
    \E r1, r2 \in Reqs :
        /\ pc[r1] = "done" /\ exc[r1] = "AgentError" /\ invocations[r1] = 1
        /\ pc[r2] = "done" /\ exc[r2] = "LLMConfigError" /\ invocations[r2] = 0

\* a request that is at an await point, or not yet started
Suspended(q) == pc[q] \in {"start", "connecting", "invoking", "closing"}

\* C15: while a request waits for the user-data service to answer, every
\* other request that is suspended or not yet started can take its next step.
C15_OthersRunDuringFetch ==
    \A r, q \in Reqs :
        (pc[r] = "fetch_wait" /\ q # r /\ Suspended(q)) =>
            ENABLED (Handler(q) \/ Collaborators(q))

\* ainvoke has returned a message list to request r
InvokeSucceeded(r) ==
    invocations[r] = 1 /\ pc[r] \notin {"body", "invoking"} /\ exc[r] # "AgentError"

\* C16: after a successful invocation the reply is the content of the last
\* message of the returned list (the replayed turns followed by whatever the
\* agent appended); an empty list gives HTTP 500 with the session released,
\* and never a reply.
C16_ReplyIsLastContent ==
    \A r \in Reqs :
        (InvokeSucceeded(r) /\ pc[r] = "done") =>
            /\ response[r] = agent_input[r] \o llm_output
            /\ sess[r] = "released" /\ \A c \in OwnConns(r) : ~conns[c].open
            /\ IF response[r] = <<>>
               THEN outcome[r].kind = "http500" /\ exc[r] = "IndexError"
               ELSE /\ outcome[r].kind = "ok"
                    /\ outcome[r].response = response[r][Len(response[r])].content
                    /\ llm_output # <<>> =>
                          outcome[r].response = llm_output[Len(llm_output)].content

\* a two-turn conversation answered after a capability call
C16_Witness ==
    \E r \in Reqs :
        /\ InvokeSucceeded(r) /\ pc[r] = "done"
        /\ Len(agent_input[r]) = 2 /\ Len(response[r]) = 4
        /\ outcome[r].kind = "ok" /\ outcome[r].response = "r2"

\* nothing replayed and nothing generated: the list is empty
C16_EmptyListWitness ==
    \E r \in Reqs :
        /\ InvokeSucceeded(r) /\ pc[r] = "done" /\ response[r] = <<>>
        /\ outcome[r].kind = "http500"

\* the fetch step of request r is over and was left through its `except`
FetchCaught(r) ==
    /\ pc[r] \notin {"start", "fetch", "fetch_wait"}
    /\ net[r].st \in {"error", "response"}
    /\ FetchResult(net[r]).raised

\* C17: after a fetch step that ended by catching an exception, the knowledge
\* text handed to prompt construction is None, and prompt construction does
\* not fail on it.
C17_CaughtFetchGivesNone ==
    \A r \in Reqs :
        FetchCaught(r) => encyclopedia_data[r] = None /\ exc[r] # "AttributeError"

====
